---------------------------- MODULE Spec2Model ----------------------------
(***************************************************************************)
(* Model of internlm/utils/storage_manager.py: the StorageManager facade   *)
(* (save / load / wait), its background upload futures, the staging files  *)
(* in tmp_local_folder, and the process-wide client cache CLI_DICT.        *)
(*                                                                         *)
(* Facade calls are made by one control flow (pc); uploads submitted with  *)
(* run_in_executor run on pool threads and finish at any time (Upload).    *)
(* wait() blocks in run_until_complete until every tracked future is done, *)
(* which is modelled by the enabling condition of WaitReturn / LoadWait.   *)
(***************************************************************************)
EXTENDS Integers, Sequences, FiniteSets, TLC

\* ------------------------------------------------------------------ bounds
MaxFutures == 2      \* uploads tracked at one time
MaxTime == 1         \* seconds of wall clock the model distinguishes (0..MaxTime)
MaxCount == 2        \* cap on upload_count
NThreads == 2        \* concurrent callers of _get_client (SpecRace)

\* os.getpid() of the one process that owns the manager
Pid == 417

\* checkpoint objects; the facade treats them as opaque
Objs == {1, 2}

\* the object saved under Spec, where only the interleaving of calls matters
MainObjs == {1}

\* A location "<backend>:<path>" after resolution: local paths have no
\* endpoint.  Spec saves to and loads from one location of each backend.
Locations ==
    {[backend |-> "local", endpoint |-> "none", dir |-> "a", name |-> "x"],
     [backend |-> "boto3", endpoint |-> "e1", dir |-> "a", name |-> "x"]}

\* SpecRace and SpecSeq also use a second key of the same endpoint and a
\* second endpoint
AllLocations ==
    Locations \cup {[backend |-> "boto3", endpoint |-> "e1", dir |-> "b", name |-> "x"],
                    [backend |-> "boto3", endpoint |-> "e2", dir |-> "a", name |-> "x"]}

\* async_upload argument of save(): "none" is the default None
Overrides == {"none", "true", "false"}

VARIABLES
    enable_save,       \* constructor argument
    async_mode,        \* self.async_mode
    rank_for_log,      \* gpc.is_rank_for_log() of this process
    exception_list,    \* self._exception_list
    to_be_del_files,   \* self._to_be_del_files
    async_stack,       \* self._async_stack: the futures returned by run_in_executor
    upload_count,      \* self.upload_count
    tmpfs,             \* staging files that exist: path -> serialized object
    store,             \* durable objects of both backends: location -> object
    now,               \* wall clock, in seconds
    CLI_DICT,          \* StorageManager.CLI_DICT: cache key -> client id
    constructed,       \* every client instance ever constructed: <<cache key, id>>
    pc,                \* where the facade's control flow is
    arg,               \* location argument of the load() in progress
    ret,               \* outcome of the last facade call that returned or raised
    tpc,               \* SpecRace: position of each concurrent _get_client caller
    tloc,              \* SpecRace: location each caller resolves
    tnew,              \* SpecRace: client a caller has constructed but not yet inserted
    tgot,              \* SpecRace: client a caller's meta_info.client ended up with
    seq,               \* SpecSeq: progress of the sequence save(L, O); wait(); load(L)
    call               \* single-call specifications: the call examined, its inputs and result

vars == <<enable_save, async_mode, rank_for_log, exception_list, to_be_del_files,
          async_stack, upload_count, tmpfs, store, now, CLI_DICT,
          constructed, pc, arg, ret, tpc, tloc, tnew, tgot, seq, call>>

config == <<enable_save, async_mode, rank_for_log>>
racevars == <<tpc, tloc, tnew, tgot>>

\* ----------------------------------------------------------------- helpers
Put(f, k, v) == [x \in DOMAIN f \cup {k} |-> IF x = k THEN v ELSE f[x]]

Drop(f, ks) == [x \in DOMAIN f \ ks |-> f[x]]

Range(s) == {s[i] : i \in DOMAIN s}

NoLoc == [backend |-> "none", endpoint |-> "none", dir |-> "none", name |-> "none"]

NoRet == [op |-> "none", outcome |-> "none", drained |-> <<>>, value |-> 0]

NoSeq == [step |-> "start", loc |-> NoLoc, obj |-> 0]

NoCall == [fn |-> "none"]

\* self._async_loop and self._thread_pool exist only on this branch of __init__
HasAsyncLoop == enable_save /\ async_mode

\* get_tmp_file_name: "<folder>/<basename>-<%b%d_%H-%M-%S>-<pid>.tmpfile"
get_tmp_file_name(loc, t) == [base |-> loc.name, time |-> t, pid |-> Pid]

\* backend_key of _get_client
backend_key(loc) == IF loc.backend = "local" THEN <<"local">> ELSE <<"boto3", loc.endpoint>>

\* is_async of the meta info: LocalMetaInfo sets False, _get_client passes
\* self.async_mode to get_boto3_meta
meta_is_async(loc) == IF loc.backend = "local" THEN FALSE ELSE async_mode

\* unpack_meta: the positional arguments handed to the client's static methods
unpack_meta(loc) ==
    IF loc.backend = "local" THEN <<"client", "dest_path">>
    ELSE IF meta_is_async(loc) THEN <<"client", "bucket_name", "file_path", "local_nvme_path">>
    ELSE <<"client", "bucket_name", "file_path">>

\* number of positional parameters the client's load / sync_upload_fileobj /
\* assert_fp_exists / get_fns require
required_args(loc) == IF loc.backend = "local" THEN 2 ELSE 4

\* _get_client executed by the facade's own control flow: check, construct,
\* insert.  Locations are well-formed and the S3 credentials are set in the
\* environment, so resolution and client construction do not raise.
get_client_dict(loc) ==
    IF backend_key(loc) \in DOMAIN CLI_DICT THEN CLI_DICT
    ELSE Put(CLI_DICT, backend_key(loc), Cardinality(constructed) + 1)

get_client_constructed(loc) ==
    IF backend_key(loc) \in DOMAIN CLI_DICT THEN constructed
    ELSE constructed \cup {<<backend_key(loc), Cardinality(constructed) + 1>>}

\* ------------------------------------------------------------------- Init
Init ==
    /\ enable_save \in BOOLEAN
    /\ async_mode \in BOOLEAN
    /\ rank_for_log \in BOOLEAN
    /\ exception_list = <<>>
    /\ to_be_del_files = <<>>
    /\ async_stack = <<>>
    /\ upload_count = 0
    /\ tmpfs = <<>>
    /\ store = <<>>
    /\ now = 0
    /\ CLI_DICT = <<>>
    /\ constructed = {}
    /\ pc = "idle"
    /\ arg = NoLoc
    /\ ret = NoRet
    /\ tpc = [t \in 1..NThreads |-> "done"]
    /\ tloc = [t \in 1..NThreads |-> NoLoc]
    /\ tnew = [t \in 1..NThreads |-> 0]
    /\ tgot = [t \in 1..NThreads |-> 0]
    /\ seq = NoSeq
    /\ call = NoCall

\* ------------------------------------------------------ StorageManager.save
\* async_upload after "if async_upload is None: async_upload = self.async_mode"
async_upload(ov) == IF ov = "none" THEN async_mode ELSE ov = "true"

\* outcome of the asynchronous branch of save
save_async_outcome(loc) ==
    IF loc.backend = "local" THEN "AttributeError"      \* LocalMetaInfo has no local_nvme_path
    ELSE IF ~HasAsyncLoop THEN "AttributeError"          \* async_executor reads self._async_loop
    ELSE "ok"

\* outcome of the synchronous branch of save; netfail: the transport raised
\* EndpointConnectionError during upload_fileobj
save_sync_outcome(loc, netfail) ==
    IF Len(unpack_meta(loc)) < required_args(loc) THEN "TypeError"
    ELSE IF loc.backend = "boto3" /\ netfail THEN "RuntimeError"
    ELSE "ok"

\* async_executor as it would be if it ran fn inline and tracked a finished future
async_executor_inline(stack, loc, tmp_step_file) ==
    Append(stack, [loc |-> loc, local_nvme_path |-> tmp_step_file, state |-> "ok"])

\* async_executor on a manager that has _async_loop: run_in_executor hands fn
\* to the pool and returns a future at once, which is appended to _async_stack
async_executor(stack, loc, tmp_step_file) ==
    Append(stack, [loc |-> loc, local_nvme_path |-> tmp_step_file, state |-> "pending"])

Save(loc, obj, ov, netfail) ==
    /\ pc = "idle"
    /\ ~async_upload(ov) => upload_count < MaxCount
    /\ CLI_DICT' = get_client_dict(loc)
    /\ constructed' = get_client_constructed(loc)
    /\ IF async_upload(ov)
       THEN /\ ~netfail
            /\ Len(to_be_del_files) < MaxFutures
            /\ Len(async_stack) < MaxFutures
            /\ IF loc.backend = "local"
               THEN UNCHANGED <<to_be_del_files, tmpfs, async_stack>>
               ELSE LET tmp_step_file == get_tmp_file_name(loc, now) IN
                    /\ to_be_del_files' = Append(to_be_del_files, tmp_step_file)
                    /\ tmpfs' = Put(tmpfs, tmp_step_file, obj)
                    /\ IF HasAsyncLoop
                       THEN async_stack' = async_executor(async_stack, loc, tmp_step_file)
                       ELSE UNCHANGED async_stack
            /\ ret' = [NoRet EXCEPT !.op = "save", !.outcome = save_async_outcome(loc)]
            /\ UNCHANGED <<store, upload_count>>
       ELSE /\ IF save_sync_outcome(loc, netfail) = "ok"
               THEN /\ store' = Put(store, loc, obj)
                    /\ upload_count' = upload_count + 1
               ELSE UNCHANGED <<store, upload_count>>
            /\ ret' = [NoRet EXCEPT !.op = "save", !.outcome = save_sync_outcome(loc, netfail)]
            /\ UNCHANGED <<to_be_del_files, tmpfs, async_stack>>
    /\ UNCHANGED <<config, exception_list, now, pc, arg, racevars>>

\* ------------------------------------------- Boto3Client.async_upload_fileobj
\* One pool thread runs async_upload_fn(client, bucket, fp, local_nvme_path):
\* it opens the staging file and uploads what the file holds at that moment.
Upload(i, netfail) ==
    /\ i \in DOMAIN async_stack
    /\ async_stack[i].state = "pending"
    /\ IF async_stack[i].local_nvme_path \in DOMAIN tmpfs /\ ~netfail
       THEN /\ store' = Put(store, async_stack[i].loc, tmpfs[async_stack[i].local_nvme_path])
            /\ async_stack' = [async_stack EXCEPT ![i].state = "ok"]
       ELSE /\ async_stack' = [async_stack EXCEPT ![i].state = "failed"]
            /\ UNCHANGED store
    /\ UNCHANGED <<config, exception_list, to_be_del_files, upload_count,
                   tmpfs, now, CLI_DICT, constructed, pc, arg, ret, racevars>>

\* datetime.now() moves on
Tick ==
    /\ now < MaxTime
    /\ now' = now + 1
    /\ UNCHANGED <<config, exception_list, to_be_del_files, async_stack, upload_count,
                   tmpfs, store, CLI_DICT, constructed, pc, arg, ret, racevars>>

\* ------------------------------------------------ StorageManager._sync_tasks
\* What task.exception() does on an asyncio future: on a future that is not
\* done it raises InvalidStateError; on a done future it RETURNS the stored
\* exception (or None).  No future is ever cancelled by this program.
task_exception(state) ==
    IF state = "pending" THEN "raises InvalidStateError" ELSE "returns"

\* the "except Exception as e" arm of the loop is taken only when the call
\* itself raises something other than InvalidStateError
except_arm_taken(state) ==
    task_exception(state) \notin {"returns", "raises InvalidStateError"}

\* the loop "for task in self._async_stack", from position i on, extending excs
RECURSIVE sync_tasks_loop(_, _, _)
sync_tasks_loop(stack, i, excs) ==
    IF i > Len(stack) THEN excs
    ELSE IF except_arm_taken(stack[i].state)
         THEN sync_tasks_loop(stack, i + 1,
                              Append(excs, [e |-> i, file_id |-> Len(excs)]))
         ELSE sync_tasks_loop(stack, i + 1, excs)

\* self._exception_list after "await self._sync_tasks()"
sync_tasks(stack, excs) ==
    IF stack = <<>> THEN excs ELSE sync_tasks_loop(stack, 1, excs)

\* ---------------------------------------------- StorageManager._del_tmp_folder
\* k = 0: every os.remove succeeds or raises FileNotFoundError (ignored);
\* k > 0: os.remove of the k-th entry raises another OSError, which is not
\* caught (only FileNotFoundError and SystemError are) and leaves the loop.
removed_paths(files, k) ==
    IF k = 0 THEN Range(files) ELSE {files[j] : j \in 1..(k - 1)}

del_tmp_folder(fs, files, k) == Drop(fs, removed_paths(files, k))

\* os.remove can fail on the k-th entry only if that file is still there
remove_can_fail(k) ==
    /\ k \in 0..Len(to_be_del_files)
    /\ k > 0 => /\ to_be_del_files[k] \in DOMAIN tmpfs
                /\ to_be_del_files[k] \notin removed_paths(to_be_del_files, k)

\* ------------------------------------------------------ StorageManager.wait
\* wait_blocked as it would be with return_when=FIRST_COMPLETED
wait_blocked_first_completed ==
    /\ async_mode
    /\ HasAsyncLoop
    /\ async_stack # <<>>
    /\ \A i \in DOMAIN async_stack : async_stack[i].state = "pending"

\* wait_blocked as it would be if wait polled until the tracking list is empty
wait_blocked_until_empty ==
    /\ async_mode
    /\ HasAsyncLoop
    /\ async_stack # <<>>

\* run_until_complete(self._sync_tasks()) returns only when asyncio.wait has
\* seen every tracked future done (return_when=ALL_COMPLETED)
wait_blocked ==
    /\ async_mode
    /\ HasAsyncLoop
    /\ \E i \in DOMAIN async_stack : async_stack[i].state = "pending"

\* wait_outcome as it would be if _del_tmp_folder caught every OSError
wait_outcome_swallow(k) ==
    IF ~async_mode THEN "ok"
    ELSE IF ~HasAsyncLoop THEN "AttributeError"
    ELSE IF sync_tasks(async_stack, exception_list) # <<>> THEN "TypeError"
    ELSE "ok"

\* how wait() ends; k as in del_tmp_folder
wait_outcome(k) ==
    IF ~async_mode THEN "ok"
    ELSE IF ~HasAsyncLoop THEN "AttributeError"      \* "if self._async_loop"
    ELSE IF sync_tasks(async_stack, exception_list) # <<>>
         THEN "TypeError"   \* self._to_be_del_files[file_id], file_id bound to the exception
    ELSE IF k > 0 THEN "OSError"
    ELSE "ok"

\* the state wait() leaves behind
wait(k) ==
    /\ ~wait_blocked
    /\ remove_can_fail(k)
    /\ IF ~async_mode \/ ~HasAsyncLoop
       THEN UNCHANGED <<exception_list, async_stack, tmpfs, to_be_del_files, upload_count>>
       ELSE /\ exception_list' =
                   IF wait_outcome(k) = "ok" THEN <<>>
                   ELSE sync_tasks(async_stack, exception_list)
            /\ async_stack' = <<>>
            /\ IF wait_outcome(k) = "TypeError"
               THEN UNCHANGED <<tmpfs, to_be_del_files, upload_count>>
               ELSE /\ tmpfs' = del_tmp_folder(tmpfs, to_be_del_files, k)
                    /\ to_be_del_files' =
                           IF wait_outcome(k) = "ok" THEN <<>> ELSE to_be_del_files
                    /\ upload_count' =
                           IF wait_outcome(k) = "ok" /\ rank_for_log
                           THEN upload_count + 1 ELSE upload_count

\* a successful wait() of this manager increments upload_count
counts_waits == async_mode /\ HasAsyncLoop /\ rank_for_log

\* the final states of the futures a wait() drains, in tracking order
drained_by_wait ==
    IF async_mode /\ HasAsyncLoop
    THEN [i \in DOMAIN async_stack |-> async_stack[i].state] ELSE <<>>

WaitCall ==
    /\ pc = "idle"
    /\ counts_waits => upload_count < MaxCount
    /\ pc' = "wait"
    /\ UNCHANGED <<config, exception_list, to_be_del_files, async_stack, upload_count,
                   tmpfs, store, now, CLI_DICT, constructed, arg, ret, racevars>>

WaitReturn(k) ==
    /\ pc = "wait"
    /\ wait(k)
    /\ pc' = "idle"
    /\ ret' = [NoRet EXCEPT !.op = "wait", !.outcome = wait_outcome(k),
                            !.drained = drained_by_wait]
    /\ UNCHANGED <<config, store, now, CLI_DICT, constructed, arg, racevars>>

\* ------------------------------------------------------ StorageManager.load
LoadCall(loc) ==
    /\ pc = "idle"
    /\ counts_waits => upload_count < MaxCount
    /\ pc' = "load"
    /\ arg' = loc
    /\ UNCHANGED <<config, exception_list, to_be_del_files, async_stack, upload_count,
                   tmpfs, store, now, CLI_DICT, constructed, ret, racevars>>

\* "self.wait()" inside load: an exception of wait leaves load
load_after_wait(outcome) == IF outcome = "ok" THEN "load_backend" ELSE "idle"

LoadWait(k) ==
    /\ pc = "load"
    /\ wait(k)
    /\ pc' = load_after_wait(wait_outcome(k))
    /\ ret' = [NoRet EXCEPT !.op = IF wait_outcome(k) = "ok" THEN "load_wait" ELSE "load",
                            !.outcome = wait_outcome(k),
                            !.drained = drained_by_wait]
    /\ arg' = IF wait_outcome(k) = "ok" THEN arg ELSE NoLoc
    /\ UNCHANGED <<config, store, now, CLI_DICT, constructed, racevars>>

\* meta.client.load(*unpack_meta(meta)); netfail: EndpointConnectionError
load_outcome(loc, netfail) ==
    IF Len(unpack_meta(loc)) < required_args(loc) THEN "TypeError"
    ELSE IF loc.backend = "boto3" /\ netfail THEN "RuntimeError"
    ELSE IF loc \notin DOMAIN store
         THEN IF loc.backend = "local" THEN "AssertionError" ELSE "ClientError"
    ELSE "ok"

LoadBackend(netfail) ==
    /\ pc = "load_backend"
    /\ CLI_DICT' = get_client_dict(arg)
    /\ constructed' = get_client_constructed(arg)
    /\ ret' = [NoRet EXCEPT !.op = "load", !.outcome = load_outcome(arg, netfail),
                            !.drained = ret.drained,
                            !.value = IF load_outcome(arg, netfail) = "ok"
                                      THEN store[arg] ELSE 0]
    /\ pc' = "idle"
    /\ arg' = NoLoc
    /\ UNCHANGED <<config, exception_list, to_be_del_files, async_stack, upload_count,
                   tmpfs, store, now, racevars>>

\* -------------------------------------------------------------------- Spec
\* Any interleaving of facade calls, pool threads and the clock.
Next ==
    \/ /\ \E loc \in Locations, obj \in MainObjs, ov \in Overrides, netfail \in BOOLEAN :
              Save(loc, obj, ov, netfail)
       /\ UNCHANGED <<seq, call>>
    \/ /\ \E i \in 1..MaxFutures, netfail \in BOOLEAN : Upload(i, netfail)
       /\ UNCHANGED <<seq, call>>
    \/ Tick /\ UNCHANGED <<seq, call>>
    \/ WaitCall /\ UNCHANGED <<seq, call>>
    \/ /\ \E k \in 0..MaxFutures : WaitReturn(k)
       /\ UNCHANGED <<seq, call>>
    \/ /\ \E loc \in Locations : LoadCall(loc)
       /\ UNCHANGED <<seq, call>>
    \/ /\ \E k \in 0..MaxFutures : LoadWait(k)
       /\ UNCHANGED <<seq, call>>
    \/ /\ \E netfail \in BOOLEAN : LoadBackend(netfail)
       /\ UNCHANGED <<seq, call>>

Spec == Init /\ [][Next]_vars

\* ---------------------------------------------------------------- SpecLive
\* Spec with the scheduling the claims about termination assume: every
\* submitted upload runs to its end on its pool thread, and the control flow
\* that called wait() or load() keeps running.
Fairness ==
    /\ \A i \in 1..MaxFutures :
           WF_vars((\E netfail \in BOOLEAN : Upload(i, netfail)) /\ UNCHANGED <<seq, call>>)
    /\ WF_vars((\E k \in 0..MaxFutures : WaitReturn(k)) /\ UNCHANGED <<seq, call>>)
    /\ WF_vars((\E k \in 0..MaxFutures : LoadWait(k)) /\ UNCHANGED <<seq, call>>)
    /\ WF_vars((\E netfail \in BOOLEAN : LoadBackend(netfail)) /\ UNCHANGED <<seq, call>>)

\* The calls and uploads of Next within one second of the clock: staging
\* paths differ by the clock only, and no wait depends on it.
NextLive ==
    \/ /\ \E loc \in Locations, obj \in MainObjs, ov \in Overrides, netfail \in BOOLEAN :
              Save(loc, obj, ov, netfail)
       /\ UNCHANGED <<seq, call>>
    \/ /\ \E i \in 1..MaxFutures, netfail \in BOOLEAN : Upload(i, netfail)
       /\ UNCHANGED <<seq, call>>
    \/ WaitCall /\ UNCHANGED <<seq, call>>
    \/ /\ \E k \in 0..MaxFutures : WaitReturn(k)
       /\ UNCHANGED <<seq, call>>
    \/ /\ \E loc \in Locations : LoadCall(loc)
       /\ UNCHANGED <<seq, call>>
    \/ /\ \E k \in 0..MaxFutures : LoadWait(k)
       /\ UNCHANGED <<seq, call>>
    \/ /\ \E netfail \in BOOLEAN : LoadBackend(netfail)
       /\ UNCHANGED <<seq, call>>

SpecLive == Init /\ [][NextLive]_vars /\ Fairness

\* ---------------------------------------------------------------- SpecRace
\* StorageManager._get_client run by NThreads callers at once.  Nothing in
\* the method takes a lock: the membership test, the construction of the
\* client, the dict update and the final lookup are separate steps.
InitRace ==
    /\ Init
    /\ enable_save = TRUE
    /\ async_mode = TRUE
    /\ rank_for_log = TRUE

GetClientCall(t, loc) ==
    /\ tpc[t] = "done"
    /\ tloc[t] = NoLoc
    /\ tloc' = [tloc EXCEPT ![t] = loc]
    /\ tpc' = [tpc EXCEPT ![t] = "check"]
    /\ UNCHANGED <<CLI_DICT, constructed, tnew, tgot>>

\* "if backend_key not in StorageManager.CLI_DICT"
GetClientCheck(t) ==
    /\ tpc[t] = "check"
    /\ tpc' = [tpc EXCEPT ![t] = IF backend_key(tloc[t]) \in DOMAIN CLI_DICT
                                 THEN "fetch" ELSE "construct"]
    /\ UNCHANGED <<CLI_DICT, constructed, tloc, tnew, tgot>>

\* "StorageManager.BACKEND_INIT_METHOD[backend](*init_args)"
GetClientConstruct(t) ==
    /\ tpc[t] = "construct"
    /\ constructed' = constructed \cup {<<backend_key(tloc[t]), Cardinality(constructed) + 1>>}
    /\ tnew' = [tnew EXCEPT ![t] = Cardinality(constructed) + 1]
    /\ tpc' = [tpc EXCEPT ![t] = "insert"]
    /\ UNCHANGED <<CLI_DICT, tloc, tgot>>

\* "StorageManager.CLI_DICT.update({backend_key: ...})"
GetClientInsert(t) ==
    /\ tpc[t] = "insert"
    /\ CLI_DICT' = Put(CLI_DICT, backend_key(tloc[t]), tnew[t])
    /\ tpc' = [tpc EXCEPT ![t] = "fetch"]
    /\ UNCHANGED <<constructed, tloc, tnew, tgot>>

\* "meta_info.client = StorageManager.CLI_DICT[backend_key]"
GetClientFetch(t) ==
    /\ tpc[t] = "fetch"
    /\ tgot' = [tgot EXCEPT ![t] = CLI_DICT[backend_key(tloc[t])]]
    /\ tpc' = [tpc EXCEPT ![t] = "done"]
    /\ UNCHANGED <<CLI_DICT, constructed, tloc, tnew>>

facadevars_nocall == <<config, exception_list, to_be_del_files, async_stack, upload_count,
                       tmpfs, store, now, pc, arg, ret, seq>>

facadevars == <<config, exception_list, to_be_del_files, async_stack, upload_count,
                tmpfs, store, now, pc, arg, ret, seq, call>>

NextRace ==
    \/ \E t \in 1..NThreads, loc \in AllLocations : GetClientCall(t, loc) /\ UNCHANGED facadevars
    \/ \E t \in 1..NThreads : GetClientCheck(t) /\ UNCHANGED facadevars
    \/ \E t \in 1..NThreads : GetClientConstruct(t) /\ UNCHANGED facadevars
    \/ \E t \in 1..NThreads : GetClientInsert(t) /\ UNCHANGED facadevars
    \/ \E t \in 1..NThreads : GetClientFetch(t) /\ UNCHANGED facadevars

SpecRace == InitRace /\ [][NextRace]_vars

\* ----------------------------------------------------------------- SpecSeq
\* The sequence save(L, O); wait(); load(L) on a freshly constructed manager
\* that has saving enabled, in synchronous and in asynchronous mode, with the
\* manager's default async_upload, while the network and the temp directory
\* work (no netfail, every os.remove succeeds).
InitSeq ==
    /\ Init
    /\ enable_save = TRUE

seq_after(step) == IF ret'.outcome = "ok" THEN step ELSE "failed"

SeqSave(loc, obj) ==
    /\ seq.step = "start"
    /\ Save(loc, obj, "none", FALSE)
    /\ seq' = [step |-> seq_after("saved"), loc |-> loc, obj |-> obj]

SeqUpload(i) ==
    /\ Upload(i, FALSE)
    /\ UNCHANGED seq

SeqWaitCall ==
    /\ seq.step = "saved"
    /\ WaitCall
    /\ seq' = [seq EXCEPT !.step = "waiting"]

SeqWaitReturn ==
    /\ seq.step = "waiting"
    /\ WaitReturn(0)
    /\ seq' = [seq EXCEPT !.step = seq_after("waited")]

SeqLoadCall ==
    /\ seq.step = "waited"
    /\ LoadCall(seq.loc)
    /\ seq' = [seq EXCEPT !.step = "loading"]

SeqLoadWait ==
    /\ seq.step = "loading"
    /\ LoadWait(0)
    /\ seq' = [seq EXCEPT !.step = seq_after("loading")]

SeqLoadBackend ==
    /\ seq.step = "loading"
    /\ LoadBackend(FALSE)
    /\ seq' = [seq EXCEPT !.step = seq_after("done")]

NextSeq ==
    \/ /\ \E loc \in AllLocations, obj \in Objs : SeqSave(loc, obj)
       /\ UNCHANGED call
    \/ /\ \E i \in 1..MaxFutures : SeqUpload(i)
       /\ UNCHANGED call
    \/ SeqWaitCall /\ UNCHANGED call
    \/ SeqWaitReturn /\ UNCHANGED call
    \/ SeqLoadCall /\ UNCHANGED call
    \/ SeqLoadWait /\ UNCHANGED call
    \/ SeqLoadBackend /\ UNCHANGED call

SpecSeq == InitSeq /\ [][NextSeq]_vars

\* ---------------------------------------------------------------- SpecCtor
\* StorageManager.__init__ on a host whose temp mount reports f_bavail free
\* blocks of f_bsize.  Sizes are counted in KiB so that products stay small:
\* f_bsize is given in KiB and a size in GiB is its KiB count over KiBPerGiB.
KiBPerGiB == 1048576

\* free blocks statvfs may report (f_bavail)
FreeBlocks == {0, 26214, 26215, 104857, 104858, 262144, 26214399, 26214400, 39321600}

\* block sizes in KiB (f_bsize of 1024 and 4096 bytes)
BlockSizes == {1, 4}

\* get_mount_point_free_size: st.f_bavail * st.f_bsize / (1024**3), as a KiB count
get_mount_point_free_size(f_bavail, f_bsize) == f_bavail * f_bsize

\* "if free_size < 0.1" on a size given as a KiB count
free_size_too_small(free_kib) == free_kib * 10 < KiBPerGiB

\* how __init__ ends: the two check_tmp_folder_accessibility calls raise when
\* the parent or the folder is not readable and writable, then the free-space
\* guard; none of this runs unless enable_save and async_mode
init_outcome(save, async, parent_ok, folder_ok, free_kib) ==
    IF ~(save /\ async) THEN "ok"
    ELSE IF ~parent_ok \/ ~folder_ok THEN "RuntimeError: permissions"
    ELSE IF free_size_too_small(free_kib) THEN "RuntimeError: Insufficient temporary storage space"
    ELSE "ok"

CtorCall(parent_ok, folder_ok, f_bavail, f_bsize) ==
    /\ call = NoCall
    /\ call' = [fn |-> "__init__", parent_ok |-> parent_ok, folder_ok |-> folder_ok,
                free_kib |-> get_mount_point_free_size(f_bavail, f_bsize),
                out |-> "running"]
    /\ UNCHANGED <<facadevars_nocall, CLI_DICT, constructed, racevars>>

CtorReturn ==
    /\ call # NoCall
    /\ call.out = "running"
    /\ call' = [call EXCEPT !.out = init_outcome(enable_save, async_mode, call.parent_ok,
                                                 call.folder_ok, call.free_kib)]
    /\ UNCHANGED <<facadevars_nocall, CLI_DICT, constructed, racevars>>

NextCtor ==
    \/ \E parent_ok \in BOOLEAN, folder_ok \in BOOLEAN,
          f_bavail \in FreeBlocks, f_bsize \in BlockSizes :
           CtorCall(parent_ok, folder_ok, f_bavail, f_bsize)
    \/ CtorReturn

SpecCtor == Init /\ [][NextCtor]_vars

\* ------------------------------------------------------------- SpecResolve
\* Paths as the code sees them: strings, modelled as sequences of characters.

Digits == {"0", "1", "2", "3", "4", "5", "6", "7", "8", "9"}

\* "s3://", as the prefix tested by startswith and as the argument of lstrip
S3Prefix == <<"s", "3", ":", "/", "/">>

HttpScheme == <<"h", "t", "t", "p", ":", "/", "/">>

Port80 == <<":", "8", "0">>

\* bucket names, with and without leading characters that occur in "s3://"
BucketNames == {<<"b">>, <<"b", "s">>, <<"s", "b">>, <<"3", "b">>, <<"s", "3">>}

EndpointAddrs == {<<"1">>, <<"1", ".", "2">>, <<"1", "0", ".", "3">>}

ObjectKeys == {<<"k">>, <<"k", "/", "k">>, <<"s", "/", "k">>, <<"3", "k">>}

LocalPaths == {<<"/", "k">>, <<"/", "s", "3", "/", "k">>, <<"k", ":", "k">>}

startswith(s, pre) ==
    /\ Len(s) >= Len(pre)
    /\ SubSeq(s, 1, Len(pre)) = pre

\* str.lstrip(chars): drops every leading character that is a member of chars
RECURSIVE lstrip(_, _)
lstrip(s, chars) ==
    IF s # <<>> /\ s[1] \in chars THEN lstrip(Tail(s), chars) ELSE s

\* index of the first occurrence of sep in s, 0 if there is none
RECURSIVE find(_, _, _)
find(s, sep, i) ==
    IF i > Len(s) THEN 0
    ELSE IF s[i] = sep THEN i
    ELSE find(s, sep, i + 1)

\* str.split(sep)
RECURSIVE split(_, _)
split(s, sep) ==
    LET i == find(s, sep, 1) IN
    IF i = 0 THEN <<s>>
    ELSE <<SubSeq(s, 1, i - 1)>> \o split(SubSeq(s, i + 1, Len(s)), sep)

\* sep.join(parts)
RECURSIVE join(_, _)
join(parts, sep) ==
    IF parts = <<>> THEN <<>>
    ELSE IF Len(parts) = 1 THEN parts[1]
    ELSE parts[1] \o <<sep>> \o join(Tail(parts), sep)

\* longest prefix of s made of characters of set cs
RECURSIVE span(_, _)
span(s, cs) ==
    IF s # <<>> /\ s[1] \in cs THEN <<s[1]>> \o span(Tail(s), cs) ELSE <<>>

\* boto3_url_re.match(s) for r"([^\.]+)\.([\d\.]+)": group 1 is the text before
\* the first dot, group 2 the run of digits and dots after it
boto3_url_re_match(s) ==
    LET dot == find(s, ".", 1)
        rest == SubSeq(s, dot + 1, Len(s))
        g2 == span(rest, Digits \cup {"."})
    IN  IF dot < 2 \/ g2 = <<>> THEN [matched |-> FALSE]
        ELSE [matched |-> TRUE, group1 |-> SubSeq(s, 1, dot - 1), group2 |-> g2]

get_boto3_meta_str(fp) ==
    IF ~startswith(fp, S3Prefix) THEN [out |-> "AssertionError"]
    ELSE LET parts == split(lstrip(fp, Range(S3Prefix)), "/")
             match == boto3_url_re_match(parts[1])
         IN  IF ~match.matched THEN [out |-> "AssertionError"]
             ELSE [out |-> "ok",
                   backend |-> "boto3",
                   bucket_name |-> match.group1,
                   endpoint |-> HttpScheme \o match.group2 \o Port80,
                   file_path |-> join(Tail(parts), "/")]

get_local_meta_str(fp) ==
    IF startswith(fp, S3Prefix) THEN [out |-> "AssertionError"]
    ELSE [out |-> "ok", backend |-> "local", file_path |-> fp]

\* the head of _get_client: path.split(":", maxsplit=1), then the meta builder
\* of the backend
get_client_meta(path) ==
    LET colon == find(path, ":", 1)
        backend == SubSeq(path, 1, colon - 1)
        fp == SubSeq(path, colon + 1, Len(path))
    IN  IF colon = 0 THEN [out |-> "AttributeError"]
        ELSE IF backend = <<"l", "o", "c", "a", "l">> THEN get_local_meta_str(fp)
        ELSE IF backend = <<"b", "o", "t", "o", "3">> THEN get_boto3_meta_str(fp)
        ELSE [out |-> "NotImplementedError"]

ResolveBoto3Call(bucket, addr, key) ==
    /\ call = NoCall
    /\ call' = [fn |-> "_get_client", backend |-> "boto3", bucket |-> bucket,
                addr |-> addr, key |-> key,
                path |-> <<"b", "o", "t", "o", "3", ":">> \o S3Prefix \o bucket
                             \o <<".">> \o addr \o <<"/">> \o key,
                out |-> "running"]
    /\ UNCHANGED <<facadevars_nocall, CLI_DICT, constructed, racevars>>

ResolveLocalCall(fp) ==
    /\ call = NoCall
    /\ call' = [fn |-> "_get_client", backend |-> "local", key |-> fp,
                path |-> <<"l", "o", "c", "a", "l", ":">> \o fp,
                out |-> "running"]
    /\ UNCHANGED <<facadevars_nocall, CLI_DICT, constructed, racevars>>

ResolveReturn ==
    /\ call # NoCall
    /\ call.out = "running"
    /\ LET meta == get_client_meta(call.path) IN
           call' = [call EXCEPT !.out = meta.out] @@ [meta |-> meta]
    /\ UNCHANGED <<facadevars_nocall, CLI_DICT, constructed, racevars>>

NextResolve ==
    \/ \E bucket \in BucketNames, addr \in EndpointAddrs, key \in ObjectKeys :
           ResolveBoto3Call(bucket, addr, key)
    \/ \E fp \in LocalPaths : ResolveLocalCall(fp)
    \/ ResolveReturn

SpecResolve == Init /\ [][NextResolve]_vars

\* -------------------------------------------------------------- SpecDelete
\* What a path is on disk when delete_obj is called.  A location that holds a
\* saved object is a file; any other path is a directory or does not exist.
PathKinds == {"file", "dir", "absent"}

path_kind_possible(p, kind) ==
    IF p \in DOMAIN store THEN kind = "file"
    ELSE IF p.backend = "local" THEN kind \in {"dir", "absent"}
    ELSE kind = "absent"

\* LocalClient.delete_obj as it would be if it removed directories as well
LocalClient_delete_obj_rmtree(kind) ==
    IF kind = "absent" THEN [out |-> "FileNotFoundError", after |-> "absent"]
    ELSE [out |-> "ok", after |-> "absent"]

\* LocalClient.delete_obj: "if not os.path.isdir(fp): os.remove(fp)"
LocalClient_delete_obj(kind) ==
    IF kind = "dir" THEN [out |-> "ok", after |-> "dir"]
    ELSE IF kind = "file" THEN [out |-> "ok", after |-> "absent"]
    ELSE [out |-> "FileNotFoundError", after |-> "absent"]

\* StorageManager.delete_obj: meta.client.delete_obj(*unpack_meta(meta)); both
\* clients' delete_obj take (handler, fp)
delete_obj(p, kind) ==
    IF Len(unpack_meta(p)) # 2 THEN [out |-> "TypeError", after |-> kind]
    ELSE IF p.backend = "local" THEN LocalClient_delete_obj(kind)
    ELSE [out |-> "NotImplementedError", after |-> kind]

Delete(p, kind) ==
    /\ pc = "idle"
    /\ path_kind_possible(p, kind)
    /\ CLI_DICT' = get_client_dict(p)
    /\ constructed' = get_client_constructed(p)
    /\ store' = IF kind = "file" /\ delete_obj(p, kind).after = "absent"
                THEN Drop(store, {p}) ELSE store
    /\ call' = [fn |-> "delete_obj", path |-> p, kind |-> kind,
                out |-> delete_obj(p, kind).out,
                after |-> delete_obj(p, kind).after,
                removed |-> DOMAIN store \ DOMAIN store']
    /\ UNCHANGED <<config, exception_list, to_be_del_files, async_stack, upload_count,
                   tmpfs, now, pc, arg, ret, racevars, seq>>

NextDelete ==
    \/ \E loc \in Locations, obj \in Objs, netfail \in BOOLEAN :
           Save(loc, obj, "false", netfail) /\ UNCHANGED <<seq, call>>
    \/ \E p \in Locations, kind \in PathKinds : Delete(p, kind)

SpecDelete == Init /\ [][NextDelete]_vars

\* ---------------------------------------------------------------- SpecList
\* Boto3Client.get_fns over the pages of list_objects_v2.

\* most objects under the listed prefix
MaxKeys == 3

\* largest page size the store answers with
MaxPageSize == 2

\* object keys of the bucket that match the prefix
MatchingKeys ==
    {<<"a", "/", "x">>, <<"a", "/", "y">>, <<"a", "/", "b", "/", "w">>, <<"m">>}

\* the listings the store can hold: up to MaxKeys distinct keys, in the order
\* the store reports them
Listings ==
    {ks \in UNION {[1..n -> MatchingKeys] : n \in 0..MaxKeys} :
        \A i, j \in DOMAIN ks : i # j => ks[i] # ks[j]}

\* paginator.paginate(Bucket, Prefix): the matching keys in pages of at most
\* size keys; a listing without matches is one page that has no "Contents"
RECURSIVE paginate(_, _)
paginate(ks, size) ==
    IF ks = <<>> THEN <<>>
    ELSE IF Len(ks) <= size THEN <<[has_contents |-> TRUE, Contents |-> ks]>>
    ELSE <<[has_contents |-> TRUE, Contents |-> SubSeq(ks, 1, size)]>>
             \o paginate(SubSeq(ks, size + 1, Len(ks)), size)

pages_of(ks, size) ==
    IF ks = <<>> THEN <<[has_contents |-> FALSE, Contents |-> <<>>]>>
    ELSE paginate(ks, size)

\* index of the last occurrence of sep in s at or before i, 0 if there is none
RECURSIVE rfind(_, _, _)
rfind(s, sep, i) ==
    IF i = 0 THEN 0
    ELSE IF s[i] = sep THEN i
    ELSE rfind(s, sep, i - 1)

\* str.rsplit(sep, maxsplit=1)
rsplit(s, sep) ==
    LET i == rfind(s, sep, Len(s)) IN
    IF i = 0 THEN <<s>>
    ELSE <<SubSeq(s, 1, i - 1), SubSeq(s, i + 1, Len(s))>>

\* the loops of get_fns from the given page on; names: folder_name_list so far
RECURSIVE get_fns_pages(_, _)
get_fns_pages(pages, names) ==
    IF pages = <<>> THEN [out |-> "ok", names |-> names]
    ELSE IF ~pages[1].has_contents THEN [out |-> "KeyError", names |-> <<>>]
    ELSE IF \E i \in DOMAIN pages[1].Contents : Len(rsplit(pages[1].Contents[i], "/")) < 2
         THEN [out |-> "IndexError", names |-> <<>>]
    ELSE get_fns_pages(Tail(pages),
                       names \o [i \in DOMAIN pages[1].Contents |->
                                     rsplit(pages[1].Contents[i], "/")[2]])

Boto3Client_get_fns(pages) == get_fns_pages(pages, <<>>)

ListCall(ks, size) ==
    /\ call = NoCall
    /\ call' = [fn |-> "get_fns", keys |-> ks, pages |-> pages_of(ks, size),
                out |-> "running", names |-> <<>>]
    /\ UNCHANGED <<facadevars_nocall, CLI_DICT, constructed, racevars>>

ListReturn ==
    /\ call # NoCall
    /\ call.out = "running"
    /\ call' = [call EXCEPT !.out = Boto3Client_get_fns(call.pages).out,
                            !.names = Boto3Client_get_fns(call.pages).names]
    /\ UNCHANGED <<facadevars_nocall, CLI_DICT, constructed, racevars>>

NextList ==
    \/ \E ks \in Listings, size \in 1..MaxPageSize : ListCall(ks, size)
    \/ ListReturn

SpecList == Init /\ [][NextList]_vars

\* --------------------------------------------------------------- SpecStage
\* The asynchronous branch of save() and async_upload_fileobj statement by
\* statement, to see the staging file while it is written and while it is
\* read.  call holds the save() in progress.  A future is "reading" from the
\* moment its pool thread has opened the staging file until upload_fileobj
\* ends, and "reading_raced" once the file was truncated under it.

\* the remote locations saved to: two keys of one endpoint that have the same
\* base name
StageLocations == {loc \in AllLocations : loc.backend = "boto3" /\ loc.endpoint = "e1"}

\* a staging file that open(..., "wb") has just created or truncated
Truncated == 0

\* what upload_fileobj may have sent of a file that was rewritten while it
\* was read: the old object, the new one, or no complete object
raced_uploads == Objs \cup {Truncated}

\* lines 481-484: the path is recorded, then open(tmp_step_file, "wb")
\* creates the file or truncates the one that is there
StageOpen(loc, obj, ov) ==
    /\ pc = "idle"
    /\ call = NoCall
    /\ async_upload(ov)
    /\ Len(to_be_del_files) < MaxFutures
    /\ Len(async_stack) < MaxFutures
    /\ CLI_DICT' = get_client_dict(loc)
    /\ constructed' = get_client_constructed(loc)
    /\ LET tmp_step_file == get_tmp_file_name(loc, now) IN
           /\ to_be_del_files' = Append(to_be_del_files, tmp_step_file)
           /\ tmpfs' = Put(tmpfs, tmp_step_file, Truncated)
           /\ async_stack' =
                  [i \in DOMAIN async_stack |->
                      IF /\ async_stack[i].state = "reading"
                         /\ async_stack[i].local_nvme_path = tmp_step_file
                      THEN [async_stack[i] EXCEPT !.state = "reading_raced"]
                      ELSE async_stack[i]]
           /\ call' = [fn |-> "save", loc |-> loc, obj |-> obj,
                       path |-> tmp_step_file, phase |-> "writing"]
    /\ UNCHANGED <<config, exception_list, upload_count, store, now, pc, arg, ret,
                   racevars, seq>>

\* line 485: torch.save writes the object, the with block closes the file
StageWrite ==
    /\ call # NoCall
    /\ call.fn = "save"
    /\ call.phase = "writing"
    /\ tmpfs' = Put(tmpfs, call.path, call.obj)
    /\ call' = [call EXCEPT !.phase = "written"]
    /\ UNCHANGED <<config, exception_list, to_be_del_files, async_stack, upload_count,
                   store, now, CLI_DICT, constructed, pc, arg, ret, racevars, seq>>

\* lines 486-487: async_executor submits the upload, save returns
StageSubmit ==
    /\ call # NoCall
    /\ call.fn = "save"
    /\ call.phase = "written"
    /\ async_stack' = IF HasAsyncLoop
                      THEN async_executor(async_stack, call.loc, call.path)
                      ELSE async_stack
    /\ ret' = [NoRet EXCEPT !.op = "save", !.outcome = save_async_outcome(call.loc)]
    /\ call' = NoCall
    /\ UNCHANGED <<config, exception_list, to_be_del_files, upload_count, tmpfs,
                   store, now, CLI_DICT, constructed, pc, arg, racevars, seq>>

\* async_upload_fileobj on its pool thread: open(local_nvme_path, "rb")
UploadOpen(i) ==
    /\ i \in DOMAIN async_stack
    /\ async_stack[i].state = "pending"
    /\ async_stack' =
           [async_stack EXCEPT ![i].state =
               IF async_stack[i].local_nvme_path \in DOMAIN tmpfs
               THEN IF /\ call # NoCall
                       /\ call.phase = "writing"
                       /\ call.path = async_stack[i].local_nvme_path
                    THEN "reading_raced" ELSE "reading"
               ELSE "failed"]
    /\ UNCHANGED <<config, exception_list, to_be_del_files, upload_count, tmpfs,
                   store, now, CLI_DICT, constructed, pc, arg, ret, racevars, seq, call>>

\* upload_fileobj ends; v: what it sent, netfail: EndpointConnectionError
UploadDone(i, v, netfail) ==
    /\ i \in DOMAIN async_stack
    /\ async_stack[i].state \in {"reading", "reading_raced"}
    /\ IF async_stack[i].state = "reading"
       THEN v = tmpfs[async_stack[i].local_nvme_path]
       ELSE v \in raced_uploads
    /\ IF netfail
       THEN /\ async_stack' = [async_stack EXCEPT ![i].state = "failed"]
            /\ UNCHANGED store
       ELSE /\ async_stack' = [async_stack EXCEPT ![i].state = "ok"]
            /\ store' = Put(store, async_stack[i].loc, v)
    /\ UNCHANGED <<config, exception_list, to_be_del_files, upload_count, tmpfs,
                   now, CLI_DICT, constructed, pc, arg, ret, racevars, seq, call>>

\* run_until_complete returns when every tracked future is done
StageWaitReturn(k) ==
    /\ \A i \in DOMAIN async_stack : async_stack[i].state \in {"ok", "failed"}
    /\ WaitReturn(k)

NextStage ==
    \/ \E loc \in StageLocations, obj \in Objs, ov \in Overrides : StageOpen(loc, obj, ov)
    \/ StageWrite
    \/ StageSubmit
    \/ \E i \in 1..MaxFutures : UploadOpen(i)
    \/ \E i \in 1..MaxFutures, v \in raced_uploads, netfail \in BOOLEAN :
           UploadDone(i, v, netfail)
    \/ Tick /\ UNCHANGED <<seq, call>>
    \/ WaitCall /\ call = NoCall /\ UNCHANGED <<seq, call>>
    \/ /\ \E k \in 0..MaxFutures : StageWaitReturn(k)
       /\ UNCHANGED <<seq, call>>

SpecStage == Init /\ [][NextStage]_vars

\* ------------------------------------------------------------- properties
\* a step in which the wait() of a manager with an event loop stops waiting
\* and collects its futures (directly, or inside load)
Drains ==
    /\ pc \in {"wait", "load"}
    /\ pc' \notin {"wait", "load"}
    /\ async_mode
    /\ HasAsyncLoop

\* a drain that collects at least one future whose upload raised
FailedDrain ==
    /\ Drains
    /\ \E i \in DOMAIN async_stack : async_stack[i].state = "failed"

\* C1: whenever wait() (directly or as the first step of load) has returned
\* without raising, every upload it drained finished without error.
C1_NoFailureDropped ==
    (ret.op \in {"wait", "load_wait"} /\ ret.outcome = "ok")
        => \A i \in DOMAIN ret.drained : ret.drained[i] = "ok"

\* C2: the step that takes load() to its backend call is the return of
\* load's own wait(): it is taken only when no tracked upload is still
\* pending and only when that wait did not raise.
C2_LoadAfterWait ==
    [][(pc' = "load_backend" /\ pc # "load_backend")
          => /\ pc = "load"
             /\ \A i \in DOMAIN async_stack : async_stack[i].state # "pending"
             /\ ret'.op = "load_wait"
             /\ ret'.outcome = "ok"]_vars

\* C2 witness: load is about to call the backend after its wait drained two
\* asynchronous saves.
C2_Witness ==
    /\ pc = "load_backend"
    /\ Len(ret.drained) = 2

\* C3: a step in which wait() returns successfully on an async-mode manager
\* leaves the temp-file list, the tracking list and the exception list empty
\* and leaves none of the staging files that were recorded.
C3_CleanAfterWait ==
    [][(pc \in {"wait", "load"} /\ pc' \notin {"wait", "load"}
          /\ async_mode /\ ret'.outcome = "ok")
          => /\ to_be_del_files' = <<>>
             /\ async_stack' = <<>>
             /\ exception_list' = <<>>
             /\ \A j \in DOMAIN to_be_del_files : to_be_del_files[j] \notin DOMAIN tmpfs']_vars

\* C3 witness: wait() has just returned successfully after draining two
\* uploads, and nothing is tracked any more.
C3_Witness ==
    /\ ret.op = "wait"
    /\ ret.outcome = "ok"
    /\ Len(ret.drained) = 2
    /\ async_mode
    /\ pc = "idle"
    /\ to_be_del_files = <<>>
    /\ tmpfs = <<>>

\* C4: after a drain, every failed task at position i of the tracking list
\* has an Exception Record whose index is that position (0-based), i.e. the
\* record points at the i-th temp-file entry, the staging file of that save.
C4_RecordCarriesPosition ==
    [][Drains =>
          \A i \in DOMAIN async_stack :
              async_stack[i].state = "failed" =>
                  \E j \in DOMAIN exception_list' :
                      /\ exception_list'[j].e = i
                      /\ exception_list'[j].file_id = i - 1]_vars

\* C5: a wait() that drains at least one failed upload fails with the
\* RuntimeError that reports the upload failure (UploadFailed), with no other
\* error and not with a normal return.
C5_FailedDrainRaisesUploadFailed ==
    [][FailedDrain => ret'.outcome = "RuntimeError"]_vars

\* C6: the wait() of a failed drain (the wait the design fails with
\* UploadFailed) leaves upload_count unchanged, removes nothing from the
\* temp-file list and deletes no tracked staging file.
C6_FailedDrainKeepsState ==
    [][FailedDrain =>
          /\ upload_count' = upload_count
          /\ to_be_del_files' = to_be_del_files
          /\ \A j \in DOMAIN to_be_del_files :
                 to_be_del_files[j] \in DOMAIN tmpfs => to_be_del_files[j] \in DOMAIN tmpfs']_vars

\* C7: no two client instances are ever constructed for one cache key, and
\* callers that resolved the same key hold the same instance.
C7_OneClientPerKey ==
    /\ \A c1, c2 \in constructed : c1[1] = c2[1] => c1[2] = c2[2]
    /\ \A t1, t2 \in 1..NThreads :
           (/\ tgot[t1] # 0
            /\ tgot[t2] # 0
            /\ backend_key(tloc[t1]) = backend_key(tloc[t2])) => tgot[t1] = tgot[t2]

\* C8: the sequence save(L, O); wait(); load(L) never ends in an error, and
\* when it has completed load has returned O.
C8_RoundTrip ==
    /\ seq.step # "failed"
    /\ seq.step = "done" => (ret.op = "load" /\ ret.outcome = "ok" /\ ret.value = seq.obj)

\* C10: the staging files of any two uploads tracked at the same time (both
\* submitted before the same wait) have distinct paths.
C10_DistinctStagingPaths ==
    \A i, j \in DOMAIN async_stack :
        i # j => async_stack[i].local_nvme_path # async_stack[j].local_nvme_path

\* C11: construction with saving and async mode enabled (and an accessible
\* temp folder) fails with the insufficient-space error exactly when the free
\* space on the temp mount is below 100 GiB.
C11_GuardAt100GiB ==
    (/\ call.fn = "__init__"
     /\ call.out # "running"
     /\ enable_save /\ async_mode
     /\ call.parent_ok /\ call.folder_ok)
        => (call.out = "RuntimeError: Insufficient temporary storage space"
                <=> call.free_kib < 100 * KiBPerGiB)

\* a step of save() that took the asynchronous branch as far as recording the
\* staging file (only that branch appends to the temp-file list)
AsyncSaveStep ==
    /\ pc = "idle"
    /\ Len(to_be_del_files') = Len(to_be_del_files) + 1

\* C12: an asynchronous save that returns has appended exactly one future,
\* still pending, to the tracking list and has not waited for any upload;
\* while a tracked upload is pending no wait() or load() gets past its wait,
\* and nothing else holds the facade.
C12_SaveDoesNotWait ==
    [][/\ (AsyncSaveStep /\ ret'.outcome = "ok")
            => /\ Len(async_stack') = Len(async_stack) + 1
               /\ SubSeq(async_stack', 1, Len(async_stack)) = async_stack
               /\ async_stack'[Len(async_stack')].state = "pending"
       /\ ((\E i \in DOMAIN async_stack : async_stack[i].state = "pending") /\ pc' # pc)
            => (pc = "idle" /\ pc' \in {"wait", "load"})]_vars

\* C12 witness: save has returned and its upload has not finished.
C12_Witness ==
    /\ pc = "idle"
    /\ ret.op = "save"
    /\ ret.outcome = "ok"
    /\ async_stack # <<>>
    /\ async_stack[Len(async_stack)].state = "pending"

\* C13: resolving a local path returns the path unchanged, and resolving a
\* remote URI returns exactly the bucket, the endpoint and the object key
\* written in the URI, whatever characters the bucket name begins with.
C13_ResolverRoundTrip ==
    (call.fn = "_get_client" /\ call.out # "running")
        => /\ call.out = "ok"
           /\ call.meta.backend = call.backend
           /\ call.meta.file_path = call.key
           /\ call.backend = "boto3"
                => /\ call.meta.bucket_name = call.bucket
                   /\ call.meta.endpoint = HttpScheme \o call.addr \o Port80

\* C14: an asynchronous save on a manager that was not constructed with
\* saving and async mode both enabled (so it has no event loop) fails with
\* the not-initialized RuntimeError of async_executor and with no other error.
C14_NotInitialized ==
    [][(AsyncSaveStep /\ ~HasAsyncLoop) => ret'.outcome = "RuntimeError"]_vars

\* C15 (as claimed): delete on a local path that is a directory fails with
\* the unsupported-operation error and leaves the directory in place.
C15_DeleteDirUnsupported ==
    (call.fn = "delete_obj" /\ call.path.backend = "local" /\ call.kind = "dir")
        => /\ call.out = "NotImplementedError"
           /\ call.after = "dir"

\* C15 (amended): delete on a local path that is a directory returns
\* normally, removes nothing and leaves the directory in place.
C15_DeleteDirIsNoOp ==
    (call.fn = "delete_obj" /\ call.path.backend = "local" /\ call.kind = "dir")
        => /\ call.out = "ok"
           /\ call.after = "dir"
           /\ call.removed = {}

\* C15 witness: a delete of a local directory has returned.
C15_Witness ==
    /\ call.fn = "delete_obj"
    /\ call.path.backend = "local"
    /\ call.kind = "dir"
    /\ call.out = "ok"

\* the last '/'-separated segment of an object key
final_segment(key) == split(key, "/")[Len(split(key, "/"))]

\* C16: the remote listing returns, for every number of result pages, one
\* name per matching object across all pages, none missing and none twice,
\* each being the final '/'-separated segment of the object's key.
C16_ListAllPages ==
    (call.fn = "get_fns" /\ call.out # "running")
        => /\ call.out = "ok"
           /\ call.names = [i \in DOMAIN call.keys |-> final_segment(call.keys[i])]

\* a wait() (called directly or by load) returns successfully in this step
SuccessfulWaitStep ==
    /\ pc \in {"wait", "load"}
    /\ pc' # pc
    /\ ret'.outcome = "ok" \/ pc' = "load_backend"

\* C17: the temp-file list has one entry per asynchronous save submitted to
\* the executor since the last successful wait: it grows by one exactly in
\* the steps that submit a future, and otherwise changes only by being
\* emptied by a successful wait. A save that fails before or during
\* submission leaves no entry behind.
C17_RecordsMatchSubmissions ==
    [][/\ (Len(async_stack') = Len(async_stack) + 1)
            => to_be_del_files' = Append(to_be_del_files, async_stack'[Len(async_stack')].local_nvme_path)
       /\ (to_be_del_files' # to_be_del_files)
            => \/ /\ Len(async_stack') = Len(async_stack) + 1
                  /\ ret'.outcome = "ok"
               \/ /\ SuccessfulWaitStep
                  /\ to_be_del_files' = <<>>]_vars

\* C18: after any sequence of save and wait calls, failed waits included, the
\* i-th tracked future belongs to the i-th entry of the temp-file list.
C18_PositionsCorrespond ==
    \A i \in DOMAIN async_stack :
        /\ i \in DOMAIN to_be_del_files
        /\ to_be_del_files[i] = async_stack[i].local_nvme_path

\* C19: every wait() that returns successfully on an async-mode manager
\* increments upload_count by exactly one, whatever the rank of the process.
C19_EveryWaitCounts ==
    [][(SuccessfulWaitStep /\ async_mode) => upload_count' = upload_count + 1]_vars

\* the control flow is inside wait(), called directly or by load()
InWait == pc \in {"wait", "load"}

\* C20: wait() returns exactly when every upload tracked at the call finishes:
\* if every submitted upload terminates, every wait() terminates, and while a
\* tracked upload is unfinished wait() does not return.
C20_WaitTerminates ==
    /\ InWait ~> ~InWait
    /\ [][(InWait /\ \E i \in DOMAIN async_stack : async_stack[i].state = "pending")
              => pc' = pc]_vars

\* C20 witness: a wait() is blocked on an upload that has not finished.
C20_Witness ==
    /\ pc = "wait"
    /\ wait_blocked
    /\ Len(async_stack) > 1

\* C21: no upload task reads a staging file while the facade is truncating
\* or writing that same file.
C21_NoReadWhileWrite ==
    (call.fn = "save" /\ call.phase = "writing")
        => \A i \in DOMAIN async_stack :
               async_stack[i].local_nvme_path = call.path
                   => async_stack[i].state \notin {"reading", "reading_raced"}

=============================================================================
